---------------------------- MODULE Spec2Model ----------------------------
(***************************************************************************)
(* Verification model of the ART stack layer (runtime/stack.h):           *)
(*   - ShadowFrame: the interpreter frame with its trailing dual array    *)
(*     (raw vregs followed by the shadow reference array),                *)
(*   - LockCountData: the per-frame monitor ledger,                       *)
(*   - StackVisitor: the stack walker and its depth/height numbering.     *)
(* Each component has its own specification (SpecFrame, SpecLock,         *)
(* SpecWalk); the variables of the other components stay idle.            *)
(*                                                                        *)
(* 32-bit words are kept as their int32 value (the same 32 bit pattern);  *)
(* a 64-bit value is the pair <<lo, hi>> of its two words, little-endian. *)
(***************************************************************************)
EXTENDS Integers, Sequences, FiniteSets, TLC

VARIABLES
  \* ---- build configuration
  kMovingCollector,          \* globals: moving collector compiled in
  ptrSize,                   \* sizeof(void*) of the target, 4 or 8
  \* ---- ShadowFrame
  fpc,                       \* "alloc": buffer allocated, "live": constructed
  alloc_vregs,               \* num_vregs the buffer was sized for
  frame_size,                \* bytes of the buffer (ComputeSize(num_vregs))
  number_of_vregs_,
  cached_hotness_countdown_,
  hotness_countdown_,
  vregs_,                    \* words vregs_[0 .. 2N]; word 2N follows References()[N-1]
  memsetBegin,               \* byte offset the constructor's memset starts at
  memsetLen,                 \* byte count the constructor's memset clears
  overrun,                   \* a store touched bytes at or past frame_size
  frameLast,                 \* last ShadowFrame call: [op, i, hadRef]
  \* ---- LockCountData and the calling thread's pending exception
  monitors_,                 \* sequence of locked-on objects, duplicates kept
  exception_,                \* Thread: "none", "other" or "IllegalMonitorState"
  addsOf,                    \* per object: AddMonitor calls that appended
  removesOf,                 \* per object: RemoveMonitorOrThrow calls that removed
  skippedAdds,               \* AddMonitor calls skipped for a pending exception
  lockLast,                  \* last ledger call and the one before it
  \* ---- StackVisitor and the thread's stack
  stack,                     \* managed-stack fragments, newest first
  walk_kind_,                \* "kIncludeInlinedFrames" or "kSkipInlinedFrames"
  kCount,                    \* WalkStack's CountTransitions: "kYes" or "kNo"
  include_transitions,       \* WalkStack's argument
  wpc,                       \* where WalkStack stands
  cur_fragment,              \* index in stack of current_fragment
  cur_frame,                 \* index in the fragment of the current frame
  current_inlining_depth_,
  cur_depth_,
  num_frames_,
  visits,                    \* what each VisitFrame callback observed, in call order
  stopped,                   \* a callback has returned false
  \* ---- ShadowFrame: the dex pc in its two forms
  dex_pc_,
  dex_pc_ptr_,               \* address of a code unit, 0 for nullptr
  code_item_,                \* address of code_item_->insns_, 0 for nullptr
  pcLast,                    \* last dex-pc call and the setter calls before it
  \* ---- Locks::mutator_lock_ and the threads calling into a frame
  mutator_lock_,             \* [shared: set of holders, exclusive: holder or "none"]
  accLast,                   \* last accessor call and the lock state it ran in
  \* ---- dexdiag: one dex file of one vdex mapping
  kIsDebugBuild,             \* DCHECKs are compiled in
  g_show_statistics,         \* -s
  dpc,                       \* where ProcessOneDexMapping stands
  dex_offset,                \* dex_file->Begin() - vdex->Begin(), in bytes
  dex_file_size,             \* dex_file->Size(), in bytes
  sections,                  \* GetSortedDexFileSections(kSortDescending)
  pagemap,                   \* per page of the mapping: PM_PAGEMAP_PRESENT
  start,                     \* first page of the dex file
  end,                       \* page after its last page
  attributed,                \* per page: the type ProcessPageMap counted it under
  section_resident_pages,    \* PageCount filled by ProcessPageMap
  printed,                   \* what DisplayDexStatistics printed
  \* ---- dexdiag: DexDiagMain
  env,                       \* the command line, the process and libpagemap's answers
  maps,                      \* the mappings pm_process_maps returned
  mpc,                       \* where DexDiagMain stands
  map_index,                 \* i of the loop over maps
  cerr,                      \* messages written to standard error, in order
  reported,                  \* per mapping handled: what was done with it
  exit_code,                 \* the value DexDiagMain returned
  \* ---- StackVisitor: offsets in a compiled frame
  quick,                     \* the frame's layout: isa, spill masks, frame size, code item
  offsets,                   \* the offsets computed so far: [kind, reg, offset]
  \* ---- ShadowFrame: the interpreter-frame chain
  link_,                     \* link_ of every constructed frame; 0 is nullptr
  linkLast                   \* the last construction or SetLink call

frameVars == <<kMovingCollector, ptrSize, fpc, alloc_vregs, frame_size,
               number_of_vregs_, cached_hotness_countdown_, hotness_countdown_,
               vregs_, memsetBegin, memsetLen, overrun, frameLast>>

lockVars == <<monitors_, exception_, addsOf, removesOf, skippedAdds, lockLast>>

walkVars == <<stack, walk_kind_, kCount, include_transitions, wpc, cur_fragment,
              cur_frame, current_inlining_depth_, cur_depth_, num_frames_, visits,
              stopped>>

pcVars == <<dex_pc_, dex_pc_ptr_, code_item_, pcLast>>

\* The state of the components added to the three above.
mlVars == <<mutator_lock_, accLast>>

diagVars == <<kIsDebugBuild, g_show_statistics, dpc, dex_offset, dex_file_size,
              sections, pagemap, start, end, attributed, section_resident_pages,
              printed>>

mainVars == <<env, maps, mpc, map_index, cerr, reported, exit_code>>

quickVars == <<quick, offsets>>

linkVars == <<link_, linkLast>>

moreVars == <<pcVars, mlVars, diagVars, mainVars, quickVars, linkVars>>

\* What an operation of those components leaves alone.
baseVars == <<frameVars, lockVars, walkVars>>

\* What the operations of one of the added components leave alone.
pcRest == <<baseVars, mlVars, diagVars, mainVars, quickVars, linkVars>>

mlRest == <<baseVars, pcVars, diagVars, mainVars, quickVars, linkVars>>

diagRest == <<baseVars, pcVars, mlVars, mainVars, quickVars, linkVars>>

mainRest == <<baseVars, pcVars, mlVars, diagVars, quickVars, linkVars>>

quickRest == <<baseVars, pcVars, mlVars, diagVars, mainVars, linkVars>>

linkRest == <<baseVars, pcVars, mlVars, diagVars, mainVars, quickVars>>

vars == <<frameVars, lockVars, walkVars, moreVars>>

-----------------------------------------------------------------------------
(* Bounds of the model *)

\* Largest register count a frame is constructed with.
MaxVRegs == 2

\* AddMonitor calls made on one ledger.
MaxAddCalls == 3

\* Managed-stack fragments of the walked thread.
MaxFragments == 2

\* Physical frames on the walked thread's stack.
MaxFrames == 2

\* Inlined calls in one compiled frame.
MaxInline == 2

\* Code units of one method's instruction stream.
MaxInsns == 3

\* Pages of one vdex mapping.
MaxPages == 3

\* Mappings of the target process.
MaxMaps == 2

\* registers_size_ of a compiled method's code item.
MaxRegs == 3

\* outs_size_ of a compiled method's code item.
MaxOuts == 2

\* Shadow frames constructed in one thread.
MaxLinked == 3

-----------------------------------------------------------------------------
(* Build constants *)

\* sizeof(uint32_t): one raw vreg.
kVRegSize == 4

\* sizeof(StackReference<mirror::Object>): one shadow slot; GetShadowRefAddr
\* indexes the shadow array with uint32_t strides.
kStackRefSize == 4

\* Bytes of one memory page.
kPageSize == 4096

\* Alignment of the stack pointer, so of every compiled frame's size.
kStackAlignment == 16

PointerSizes == {4, 8}

\* Possible contents of a word the constructor has not written yet.
UninitWords == {170}

\* Object addresses (compressed, non-null).
Objects == {4096}

\* int32 arguments of SetVReg: a plain number and one whose bits equal an address.
IntVals == {42, 4096}

\* float arguments of SetVRegFloat, as IEEE-754 bit patterns (1.0f).
FloatBits == {1065353216}

\* int64 arguments of SetVRegLong as <<lo, hi>>.
LongVals == {<<4096, 42>>}

\* double arguments of SetVRegDouble as <<lo, hi>> (1.0).
DoubleBits == {<<0, 1072693248>>}

\* int16 arguments of SetHotnessCountdown / SetCachedHotnessCountdown.
HotnessVals == {0, 7}

-----------------------------------------------------------------------------
(* ShadowFrame layout *)

RoundUpTo(x, n) == ((x + n - 1) \div n) * n

\* The fixed fields in declaration order, each <<size, alignment>>.
HeaderFields(p) ==
  << <<p, p>>,      \* link_
     <<p, p>>,      \* method_
     <<p, p>>,      \* result_register_
     <<p, p>>,      \* dex_pc_ptr_
     <<p, p>>,      \* code_item_
     <<p, p>>,      \* lock_count_data_ (one unique_ptr)
     <<4, 4>>,      \* number_of_vregs_
     <<4, 4>>,      \* dex_pc_
     <<2, 2>>,      \* cached_hotness_countdown_
     <<2, 2>> >>    \* hotness_countdown_

RECURSIVE LayoutEnd(_, _, _)
LayoutEnd(fields, k, off) ==
  IF k > Len(fields) THEN off
  ELSE LayoutEnd(fields, k + 1, RoundUpTo(off, fields[k][2]) + fields[k][1])

\* OFFSETOF_MEMBER(ShadowFrame, vregs_): vregs_ is a zero-length uint32_t array.
VRegsOffset(p) == RoundUpTo(LayoutEnd(HeaderFields(p), 1, 0), kVRegSize)

\* sizeof(ShadowFrame): the struct is padded to its strictest alignment, a pointer's.
SizeofShadowFrame(p) == RoundUpTo(VRegsOffset(p), p)

ComputeSize(p, num_vregs) ==
  SizeofShadowFrame(p) + (kVRegSize * num_vregs) + (kStackRefSize * num_vregs)

\* Byte offset of word vregs_[k].
VRegByte(p, k) == VRegsOffset(p) + kVRegSize * k

\* Index in vregs_ of References()[i].
RefIndex(n, i) == n + i

-----------------------------------------------------------------------------
(* ShadowFrame state functions *)

Store(mem, k, v) == [mem EXCEPT ![k] = v]

\* A store to word vregs_[k] reaches bytes outside the allocated buffer.
PastBuffer(k) == VRegByte(ptrSize, k) + kVRegSize > frame_size

NumberOfVRegs == number_of_vregs_

GetVReg(i) == vregs_[i]

GetVRegReference(i) == vregs_[RefIndex(NumberOfVRegs, i)]

\* DCHECK_LT(i, NumberOfVRegs()) of every accessor.
IndexOk(i) == fpc = "live" /\ i \in 0 .. (NumberOfVRegs - 1)

Last(op, i, hadRef) == [op |-> op, i |-> i, hadRef |-> hadRef]

-----------------------------------------------------------------------------
(* ShadowFrame operations *)

\* Variant: the constructor clears the raw registers only.
CtorMemsetLen_RawOnly(num_vregs) == num_vregs * kVRegSize

\* Bytes the constructor's memset clears, starting at vregs_.
CtorMemsetLen(num_vregs) == num_vregs * (kVRegSize + kStackRefSize)

\* new (memory) ShadowFrame(num_vregs, link, method, dex_pc, true)
CreateShadowFrameImpl ==
  /\ fpc = "alloc"
  /\ LET begin == VRegsOffset(ptrSize)
         len == CtorMemsetLen(alloc_vregs)
         Cleared(k) == VRegByte(ptrSize, k) >= begin
                       /\ VRegByte(ptrSize, k) + kVRegSize <= begin + len
     IN /\ vregs_' = [k \in DOMAIN vregs_ |-> IF Cleared(k) THEN 0 ELSE vregs_[k]]
        /\ memsetBegin' = begin
        /\ memsetLen' = len
        /\ overrun' = (overrun \/ begin + len > frame_size)
  /\ number_of_vregs_' = alloc_vregs
  /\ cached_hotness_countdown_' = 0
  /\ hotness_countdown_' = 0
  /\ fpc' = "live"
  /\ frameLast' = Last("Create", 0, FALSE)
  /\ UNCHANGED <<kMovingCollector, ptrSize, alloc_vregs, frame_size>>
  /\ UNCHANGED <<lockVars, walkVars, moreVars>>

FrameHeaderUnchanged ==
  /\ UNCHANGED <<kMovingCollector, ptrSize, fpc, alloc_vregs, frame_size,
              number_of_vregs_, memsetBegin, memsetLen>>
  /\ UNCHANGED <<lockVars, walkVars, moreVars>>

SetCachedHotnessCountdown(val) ==
  /\ fpc = "live"
  /\ cached_hotness_countdown_' = val
  /\ frameLast' = Last("SetCachedHotnessCountdown", 0, FALSE)
  /\ FrameHeaderUnchanged
  /\ UNCHANGED <<hotness_countdown_, vregs_, overrun>>

SetHotnessCountdown(val) ==
  /\ fpc = "live"
  /\ hotness_countdown_' = val
  /\ frameLast' = Last("SetHotnessCountdown", 0, FALSE)
  /\ FrameHeaderUnchanged
  /\ UNCHANGED <<cached_hotness_countdown_, vregs_, overrun>>

\* Variant: the narrow write leaves the shadow slot alone.
SetVReg_NoClear(i, val) ==
  /\ IndexOk(i)
  /\ vregs_' = Store(vregs_, i, val)
  /\ overrun' = (overrun \/ PastBuffer(i))
  /\ frameLast' = Last("SetVReg", i, GetVRegReference(i) # 0)
  /\ FrameHeaderUnchanged
  /\ UNCHANGED <<cached_hotness_countdown_, hotness_countdown_>>

SetVReg(i, val) ==
  /\ IndexOk(i)
  /\ LET n == NumberOfVRegs
         raw == Store(vregs_, i, val)
     IN /\ vregs_' = IF kMovingCollector THEN Store(raw, RefIndex(n, i), 0) ELSE raw
        /\ overrun' = (overrun \/ PastBuffer(i)
                               \/ (kMovingCollector /\ PastBuffer(RefIndex(n, i))))
  /\ frameLast' = Last("SetVReg", i, GetVRegReference(i) # 0)
  /\ FrameHeaderUnchanged
  /\ UNCHANGED <<cached_hotness_countdown_, hotness_countdown_>>

\* Variant: the float is stored as a double, 8 bytes at &vregs_[i].
SetVRegFloat_AsDouble(i, val) ==
  /\ IndexOk(i)
  /\ LET n == NumberOfVRegs
         raw == Store(Store(vregs_, i, val), i + 1, 0)
     IN /\ vregs_' = IF kMovingCollector THEN Store(raw, RefIndex(n, i), 0) ELSE raw
        /\ overrun' = (overrun \/ PastBuffer(i + 1)
                               \/ (kMovingCollector /\ PastBuffer(RefIndex(n, i))))
  /\ frameLast' = Last("SetVRegFloat", i, GetVRegReference(i) # 0)
  /\ FrameHeaderUnchanged
  /\ UNCHANGED <<cached_hotness_countdown_, hotness_countdown_>>

SetVRegFloat(i, val) ==
  /\ IndexOk(i)
  /\ LET n == NumberOfVRegs
         raw == Store(vregs_, i, val)
     IN /\ vregs_' = IF kMovingCollector THEN Store(raw, RefIndex(n, i), 0) ELSE raw
        /\ overrun' = (overrun \/ PastBuffer(i)
                               \/ (kMovingCollector /\ PastBuffer(RefIndex(n, i))))
  /\ frameLast' = Last("SetVRegFloat", i, GetVRegReference(i) # 0)
  /\ FrameHeaderUnchanged
  /\ UNCHANGED <<cached_hotness_countdown_, hotness_countdown_>>

\* The 8-byte store at &vregs_[i] (4-byte aligned) and the two shadow clears.
WideStore(i, val) ==
  LET n == NumberOfVRegs
      raw == Store(Store(vregs_, i, val[1]), i + 1, val[2])
  IN /\ vregs_' = IF kMovingCollector
                   THEN Store(Store(raw, RefIndex(n, i), 0), RefIndex(n, i + 1), 0)
                   ELSE raw
     /\ overrun' = (overrun \/ PastBuffer(i) \/ PastBuffer(i + 1)
                            \/ (kMovingCollector
                                /\ (PastBuffer(RefIndex(n, i))
                                    \/ PastBuffer(RefIndex(n, i + 1)))))

SetVRegLong(i, val) ==
  /\ IndexOk(i)
  /\ WideStore(i, val)
  /\ frameLast' = Last("SetVRegLong", i, GetVRegReference(i) # 0)
  /\ FrameHeaderUnchanged
  /\ UNCHANGED <<cached_hotness_countdown_, hotness_countdown_>>

SetVRegDouble(i, val) ==
  /\ IndexOk(i)
  /\ WideStore(i, val)
  /\ frameLast' = Last("SetVRegDouble", i, GetVRegReference(i) # 0)
  /\ FrameHeaderUnchanged
  /\ UNCHANGED <<cached_hotness_countdown_, hotness_countdown_>>

\* The 8-byte load at &vregs_[i]: the words vregs_[i] and vregs_[i + 1].
GetVRegLong(i) ==
  /\ IndexOk(i)
  /\ frameLast' = [op |-> "GetVRegLong", i |-> i, hadRef |-> FALSE,
                   ret |-> <<vregs_[i], vregs_[i + 1]>>]
  /\ FrameHeaderUnchanged
  /\ UNCHANGED <<cached_hotness_countdown_, hotness_countdown_, vregs_, overrun>>

GetVRegDouble(i) ==
  /\ IndexOk(i)
  /\ frameLast' = [op |-> "GetVRegDouble", i |-> i, hadRef |-> FALSE,
                   ret |-> <<vregs_[i], vregs_[i + 1]>>]
  /\ FrameHeaderUnchanged
  /\ UNCHANGED <<cached_hotness_countdown_, hotness_countdown_, vregs_, overrun>>

\* Indices of vregs_ that accessor op, called with index i, loads or stores.
RawTouched(op, i) ==
  IF op \in {"SetVRegLong", "SetVRegDouble", "GetVRegLong", "GetVRegDouble"}
  THEN {i, i + 1}
  ELSE IF op \in {"SetVReg", "SetVRegFloat", "SetVRegReference"} THEN {i}
  ELSE {}

\* Indices of References() that accessor op, called with index i, stores to.
ShadowTouched(op, i) ==
  IF op \in {"SetVRegLong", "SetVRegDouble"}
  THEN (IF kMovingCollector THEN {i, i + 1} ELSE {})
  ELSE IF op \in {"SetVReg", "SetVRegFloat"}
  THEN (IF kMovingCollector THEN {i} ELSE {})
  ELSE IF op = "SetVRegReference" THEN {i}
  ELSE {}

SetVRegReference(i, val) ==
  /\ IndexOk(i)
  /\ LET n == NumberOfVRegs
     IN /\ vregs_' = Store(Store(vregs_, i, val), RefIndex(n, i), val)
        /\ overrun' = (overrun \/ PastBuffer(i) \/ PastBuffer(RefIndex(n, i)))
  /\ frameLast' = Last("SetVRegReference", i, GetVRegReference(i) # 0)
  /\ FrameHeaderUnchanged
  /\ UNCHANGED <<cached_hotness_countdown_, hotness_countdown_>>

\* The uint32_t value NumberOfVRegs() - 1, as its int32 bit pattern: 0 - 1 wraps
\* to 0xFFFFFFFF, which is -1.
LastIndex(n) == IF n = 0 THEN -1 ELSE n - 1

\* Byte offset in the frame of &References()[k], for k inside the window.
RefSlotAddr(p, n, k) == VRegByte(p, RefIndex(n, k))

\* Addresses handed to Contains: the 4-aligned byte offsets from the word
\* before vregs_ to the word after the largest frame's shadow array.
Addresses(p) == {VRegByte(p, k) : k \in -1 .. (2 * MaxVRegs + 1)}

\* shadow_frame_entry_obj <= &References()[NumberOfVRegs() - 1].  The index is
\* scaled as an unsigned 32-bit number: with 8-byte pointers index 0xFFFFFFFF
\* puts the bound 2^34 - 4 bytes above References(), past every address of the
\* window; with 4-byte pointers the sum wraps to 4 bytes below References().
AtOrBelowLastRef(p, n, a) ==
  LET k == LastIndex(n)
  IN IF k >= 0 THEN a <= RefSlotAddr(p, n, k)
     ELSE IF p = 8 THEN TRUE
     ELSE a <= RefSlotAddr(p, n, 0) - kStackRefSize

\* bool Contains(StackReference<mirror::Object>*) with HasReferenceArray() true.
Contains(a) ==
  /\ RefSlotAddr(ptrSize, NumberOfVRegs, 0) <= a
  /\ AtOrBelowLastRef(ptrSize, NumberOfVRegs, a)

\* A call of Contains: the frame is left as it is.
ContainsCall(a) ==
  /\ fpc = "live"
  /\ frameLast' = [op |-> "Contains", i |-> 0, hadRef |-> FALSE,
                   addr |-> a, ret |-> Contains(a)]
  /\ FrameHeaderUnchanged
  /\ UNCHANGED <<cached_hotness_countdown_, hotness_countdown_, vregs_, overrun>>

-----------------------------------------------------------------------------
(* LockCountData *)

\* Objects a monitor is taken on.
MonitorObjects == {4096, 8192}

RECURSIVE Count(_, _)
Count(seq, obj) ==
  IF seq = <<>> THEN 0
  ELSE (IF Head(seq) = obj THEN 1 ELSE 0) + Count(Tail(seq), obj)

RemoveAt(seq, k) == SubSeq(seq, 1, k - 1) \o SubSeq(seq, k + 1, Len(seq))

Matches(seq, obj) == {k \in 1 .. Len(seq) : seq[k] = obj}

RECURSIVE SumOver(_, _)
SumOver(f, S) ==
  IF S = {} THEN 0
  ELSE LET o == CHOOSE x \in S : TRUE IN f[o] + SumOver(f, S \ {o})

TotalAddCalls == skippedAdds + SumOver(addsOf, MonitorObjects)

TotalRemoves == SumOver(removesOf, MonitorObjects)

\* Record of a ledger call: what it was given, what it did, the ledger and the
\* pending exception it found, the exception it left, and the call before it.
LockCall(op, obj, raised, ret, skipped) ==
  [op |-> op, obj |-> obj, raised |-> raised, ret |-> ret, skipped |-> skipped,
   before |-> monitors_, pending |-> exception_,
   left |-> IF raised THEN "IllegalMonitorState" ELSE exception_,
   prevOp |-> lockLast.op, prevObj |-> lockLast.obj, prevSkipped |-> lockLast.skipped]

\* AddMonitor: appends the object; skipped when an exception is pending on entry.
AddMonitor(obj) ==
  /\ TotalAddCalls < MaxAddCalls
  /\ IF exception_ # "none"
       THEN /\ skippedAdds' = skippedAdds + 1
            /\ UNCHANGED <<monitors_, addsOf>>
       ELSE /\ monitors_' = Append(monitors_, obj)
            /\ addsOf' = [addsOf EXCEPT ![obj] = @ + 1]
            /\ UNCHANGED skippedAdds
  /\ lockLast' = LockCall("Add", obj, FALSE, TRUE, exception_ # "none")
  /\ UNCHANGED <<exception_, removesOf>>
  /\ UNCHANGED <<frameVars, walkVars, moreVars>>

\* Variant: the ledger is kept as a set, a remove drops every entry of the object.
RemoveMonitorOrThrow_DropAll(obj) ==
  /\ IF Matches(monitors_, obj) # {}
       THEN /\ monitors_' = SelectSeq(monitors_, LAMBDA o : o # obj)
            /\ removesOf' = [removesOf EXCEPT ![obj] = @ + 1]
            /\ lockLast' = LockCall("Remove", obj, FALSE, TRUE, FALSE)
            /\ UNCHANGED exception_
       ELSE /\ exception_' = "IllegalMonitorState"
            /\ lockLast' = LockCall("Remove", obj, TRUE, FALSE, FALSE)
            /\ UNCHANGED <<monitors_, removesOf>>
  /\ UNCHANGED <<addsOf, skippedAdds>>
  /\ UNCHANGED <<frameVars, walkVars, moreVars>>

\* Variant: an exception already pending is kept and nothing is thrown over it.
RemoveMonitorOrThrow_KeepPending(obj) ==
  /\ IF Matches(monitors_, obj) # {}
       THEN /\ \E k \in Matches(monitors_, obj) : monitors_' = RemoveAt(monitors_, k)
            /\ removesOf' = [removesOf EXCEPT ![obj] = @ + 1]
            /\ lockLast' = LockCall("Remove", obj, FALSE, TRUE, FALSE)
            /\ UNCHANGED exception_
       ELSE /\ exception_' = (IF exception_ = "none" THEN "IllegalMonitorState"
                                                    ELSE exception_)
            /\ lockLast' = LockCall("Remove", obj, exception_ = "none", FALSE, FALSE)
            /\ UNCHANGED <<monitors_, removesOf>>
  /\ UNCHANGED <<addsOf, skippedAdds>>
  /\ UNCHANGED <<frameVars, walkVars, moreVars>>

\* RemoveMonitorOrThrow: removes one entry of the object (which one is not
\* fixed); without one, clears the pending exception and throws
\* IllegalMonitorStateException.
RemoveMonitorOrThrow(obj) ==
  /\ IF Matches(monitors_, obj) # {}
       THEN /\ \E k \in Matches(monitors_, obj) : monitors_' = RemoveAt(monitors_, k)
            /\ removesOf' = [removesOf EXCEPT ![obj] = @ + 1]
            /\ lockLast' = LockCall("Remove", obj, FALSE, TRUE, FALSE)
            /\ UNCHANGED exception_
       ELSE /\ exception_' = "IllegalMonitorState"
            /\ lockLast' = LockCall("Remove", obj, TRUE, FALSE, FALSE)
            /\ UNCHANGED <<monitors_, removesOf>>
  /\ UNCHANGED <<addsOf, skippedAdds>>
  /\ UNCHANGED <<frameVars, walkVars, moreVars>>

\* Variant: the check tolerates one outstanding lock.
CheckAllMonitorsReleasedOrThrow_OffByOne ==
  /\ IF Len(monitors_) > 1
       THEN /\ exception_' = "IllegalMonitorState"
            /\ lockLast' = LockCall("Check", 0, TRUE, FALSE, FALSE)
       ELSE /\ lockLast' = LockCall("Check", 0, FALSE, TRUE, FALSE)
            /\ UNCHANGED exception_
  /\ UNCHANGED <<monitors_, addsOf, removesOf, skippedAdds>>
  /\ UNCHANGED <<frameVars, walkVars, moreVars>>

\* CheckAllMonitorsReleasedOrThrow: with monitors still recorded, clears the
\* pending exception, throws IllegalMonitorStateException and returns false.
CheckAllMonitorsReleasedOrThrow ==
  /\ IF Len(monitors_) > 0
       THEN /\ exception_' = "IllegalMonitorState"
            /\ lockLast' = LockCall("Check", 0, TRUE, FALSE, FALSE)
       ELSE /\ lockLast' = LockCall("Check", 0, FALSE, TRUE, FALSE)
            /\ UNCHANGED exception_
  /\ UNCHANGED <<monitors_, addsOf, removesOf, skippedAdds>>
  /\ UNCHANGED <<frameVars, walkVars, moreVars>>

\* Another operation of the thread leaves an exception pending.
ThrowOther ==
  /\ exception_ = "none"
  /\ exception_' = "other"
  /\ UNCHANGED <<monitors_, addsOf, removesOf, skippedAdds, lockLast>>
  /\ UNCHANGED <<frameVars, walkVars, moreVars>>

\* The thread's pending exception is caught.
ClearException ==
  /\ exception_ # "none"
  /\ exception_' = "none"
  /\ UNCHANGED <<monitors_, addsOf, removesOf, skippedAdds, lockLast>>
  /\ UNCHANGED <<frameVars, walkVars, moreVars>>

\* A new frame's ledger: no monitors, no exception pending.
LedgerEmpty ==
  /\ monitors_ = <<>>
  /\ exception_ = "none"
  /\ addsOf = [o \in MonitorObjects |-> 0]
  /\ removesOf = [o \in MonitorObjects |-> 0]
  /\ skippedAdds = 0
  /\ lockLast = [op |-> "none", obj |-> 0, raised |-> FALSE, ret |-> TRUE,
                 skipped |-> FALSE, before |-> <<>>, pending |-> "none",
                 left |-> "none",
                 prevOp |-> "none", prevObj |-> 0, prevSkipped |-> FALSE]

-----------------------------------------------------------------------------
(* StackVisitor *)

WalkKinds == {"kIncludeInlinedFrames", "kSkipInlinedFrames"}

CountPolicies == {"kYes", "kNo"}

\* A fragment holds a chain of shadow frames, or compiled frames (each with the
\* number of calls inlined at its pc), or neither; inl[k] belongs to frame k,
\* frame 1 being the newest.
FragmentShapes(n) ==
  IF n = 0 THEN {[kind |-> "none", inl |-> <<>>]}
  ELSE {[kind |-> "shadow", inl |-> [k \in 1 .. n |-> 0]]}
       \cup {[kind |-> "quick", inl |-> d] : d \in [1 .. n -> 0 .. MaxInline]}

RECURSIVE SumSeq(_)
SumSeq(q) == IF q = <<>> THEN 0 ELSE Head(q) + SumSeq(Tail(q))

\* Frames per fragment: up to MaxFragments fragments, MaxFrames frames in all.
FrameCounts ==
  UNION {{c \in [1 .. n -> 0 .. MaxFrames] : SumSeq(c) <= MaxFrames}
           : n \in 1 .. MaxFragments}

RECURSIVE StacksOf(_, _)
StacksOf(c, f) ==
  IF f > Len(c) THEN {<<>>}
  ELSE {<<x>> \o rest : x \in FragmentShapes(c[f]), rest \in StacksOf(c, f + 1)}

Stacks == UNION {StacksOf(c, 1) : c \in FrameCounts}

FrameCount(f) == Len(stack[f].inl)

\* Logical frames one physical frame yields under a walk kind.
LogicalFrames(kind, inl) == IF kind = "kIncludeInlinedFrames" THEN inl + 1 ELSE 1

\* Callbacks a walk makes on frames: one per logical frame of every fragment.
CountLogicalFrames(stk, kind) ==
  SumSeq([f \in 1 .. Len(stk) |->
            SumSeq([k \in 1 .. Len(stk[f].inl) |-> LogicalFrames(kind, stk[f].inl[k])])])

\* ComputeNumFrames: a full pre-walk counting every callback, transitions included.
ComputeNumFrames(stk, kind) == CountLogicalFrames(stk, kind) + Len(stk)

\* Variant: the cached count is returned without computing it first.
GetNumFrames_Stale == num_frames_

GetNumFrames ==
  IF num_frames_ = 0 THEN ComputeNumFrames(stack, walk_kind_) ELSE num_frames_

GetFrameDepth == cur_depth_

\* Variant: the height is counted from the newest frame.
GetFrameHeight_FromNewest == cur_depth_

GetFrameHeight == GetNumFrames - cur_depth_ - 1

GetFrameId == GetFrameHeight + 1

IsShadowFrame == wpc = "shadow"

GetCurrentInliningDepth == current_inlining_depth_

IsInInlinedFrame == current_inlining_depth_ # 0

Pos(w, f, k, d) == [wpc |-> w, frag |-> f, frame |-> k, inl |-> d]

\* Variant: the inlined frames of a compiled frame are never entered.
AtFrame_NoInlined(f, k) ==
  IF stack[f].kind = "shadow" THEN Pos("shadow", f, k, 0) ELSE Pos("quick", f, k, 0)

\* The walker reaches physical frame k of fragment f: with inlined frames
\* included it starts at the innermost inlined call.
AtFrame(f, k) ==
  IF stack[f].kind = "shadow" THEN Pos("shadow", f, k, 0)
  ELSE IF walk_kind_ = "kIncludeInlinedFrames" /\ stack[f].inl[k] > 0
         THEN Pos("inlined", f, k, stack[f].inl[k])
         ELSE Pos("quick", f, k, 0)

\* The walker enters fragment f, or leaves the loop after the last one.
AtFragment(f) ==
  IF f > Len(stack) THEN Pos("finished", f, 0, 0)
  ELSE IF FrameCount(f) = 0 THEN Pos("transition", f, 1, 0)
  ELSE AtFrame(f, 1)

\* After physical frame k of fragment f: the next older one, or the transition.
AfterFrame(f, k) ==
  IF k < FrameCount(f) THEN AtFrame(f, k + 1) ELSE Pos("transition", f, k + 1, 0)

MoveTo(pos) ==
  /\ wpc' = pos.wpc
  /\ cur_fragment' = pos.frag
  /\ cur_frame' = pos.frame
  /\ current_inlining_depth_' = pos.inl

\* What the callback sees of the walker when VisitFrame is called.
Observed(ret) ==
  [frag |-> cur_fragment, frame |-> cur_frame, inl |-> GetCurrentInliningDepth,
   inlined |-> IsInInlinedFrame, depth |-> GetFrameDepth, height |-> GetFrameHeight,
   id |-> GetFrameId, num |-> GetNumFrames, shadow |-> IsShadowFrame,
   transition |-> (wpc = "transition"), ret |-> ret]

\* bool should_continue = VisitFrame(); the callback asks for the frame height,
\* which computes num_frames_ on first use.
Callback(ret) ==
  /\ visits' = Append(visits, Observed(ret))
  /\ num_frames_' = GetNumFrames
  /\ stopped' = (stopped \/ ~ret)

\* if (!should_continue) return;
ReturnFromWalk ==
  /\ wpc' = "finished"
  /\ UNCHANGED <<cur_fragment, cur_frame, current_inlining_depth_, cur_depth_>>

WalkConfigUnchanged ==
  /\ UNCHANGED <<stack, walk_kind_, kCount, include_transitions>>
  /\ UNCHANGED <<frameVars, lockVars, moreVars>>

\* WalkStack<kCount>(include_transitions) is called on a constructed visitor.
WalkStack(count, transitions) ==
  /\ wpc = "constructed"
  /\ cur_depth_ = 0
  /\ kCount' = count
  /\ include_transitions' = transitions
  /\ MoveTo(AtFragment(1))
  /\ UNCHANGED <<stack, walk_kind_, cur_depth_, num_frames_, visits, stopped>>
  /\ UNCHANGED <<frameVars, lockVars, moreVars>>

\* Variant: a false return only leaves the loop over the inlined frames.
VisitInlinedFrame_Break(ret) ==
  /\ wpc = "inlined"
  /\ Callback(ret)
  /\ IF ~ret
       THEN /\ MoveTo(Pos("quick", cur_fragment, cur_frame, 0))
            /\ UNCHANGED cur_depth_
       ELSE /\ cur_depth_' = cur_depth_ + 1
            /\ MoveTo(Pos(IF current_inlining_depth_ = 1 THEN "quick" ELSE "inlined",
                          cur_fragment, cur_frame, current_inlining_depth_ - 1))
  /\ WalkConfigUnchanged

\* One turn of the loop over the inlined frames of a compiled frame.
VisitInlinedFrame(ret) ==
  /\ wpc = "inlined"
  /\ Callback(ret)
  /\ IF ~ret
       THEN ReturnFromWalk
       ELSE /\ cur_depth_' = cur_depth_ + 1
            /\ MoveTo(Pos(IF current_inlining_depth_ = 1 THEN "quick" ELSE "inlined",
                          cur_fragment, cur_frame, current_inlining_depth_ - 1))
  /\ WalkConfigUnchanged

\* The physical compiled frame, then on to its caller's frame.
VisitQuickFrame(ret) ==
  /\ wpc = "quick"
  /\ Callback(ret)
  /\ IF ~ret
       THEN ReturnFromWalk
       ELSE /\ cur_depth_' = cur_depth_ + 1
            /\ MoveTo(AfterFrame(cur_fragment, cur_frame))
  /\ WalkConfigUnchanged

\* One shadow frame, then on to its link.
VisitShadowFrame(ret) ==
  /\ wpc = "shadow"
  /\ Callback(ret)
  /\ IF ~ret
       THEN ReturnFromWalk
       ELSE /\ cur_depth_' = cur_depth_ + 1
            /\ MoveTo(AfterFrame(cur_fragment, cur_frame))
  /\ WalkConfigUnchanged

\* The transition at the end of a fragment, visited.
VisitTransition(ret) ==
  /\ wpc = "transition"
  /\ include_transitions
  /\ Callback(ret)
  /\ IF ~ret
       THEN ReturnFromWalk
       ELSE /\ cur_depth_' = (IF kCount = "kYes" THEN cur_depth_ + 1 ELSE cur_depth_)
            /\ MoveTo(AtFragment(cur_fragment + 1))
  /\ WalkConfigUnchanged

\* The transition at the end of a fragment, not visited.
SkipTransition ==
  /\ wpc = "transition"
  /\ ~include_transitions
  /\ cur_depth_' = (IF kCount = "kYes" THEN cur_depth_ + 1 ELSE cur_depth_)
  /\ MoveTo(AtFragment(cur_fragment + 1))
  /\ UNCHANGED <<num_frames_, visits, stopped>>
  /\ WalkConfigUnchanged

\* A visitor constructed on a suspended thread: the frame count is either left
\* to be computed on demand or supplied by the caller.
VisitorConstructed ==
  /\ stack \in Stacks
  /\ walk_kind_ \in WalkKinds
  /\ kCount = "kYes"
  /\ include_transitions = FALSE
  /\ wpc = "constructed"
  /\ cur_fragment = 0
  /\ cur_frame = 0
  /\ current_inlining_depth_ = 0
  /\ cur_depth_ = 0
  /\ num_frames_ \in {0, ComputeNumFrames(stack, walk_kind_)}
  /\ visits = <<>>
  /\ stopped = FALSE

\* The walker of the other specifications: none in use.
WalkIdle ==
  /\ stack = <<[kind |-> "none", inl |-> <<>>]>>
  /\ walk_kind_ = "kIncludeInlinedFrames"
  /\ kCount = "kYes"
  /\ include_transitions = FALSE
  /\ wpc = "finished"
  /\ cur_fragment = 0
  /\ cur_frame = 0
  /\ current_inlining_depth_ = 0
  /\ cur_depth_ = 0
  /\ num_frames_ = 0
  /\ visits = <<>>
  /\ stopped = FALSE

-----------------------------------------------------------------------------
(* ShadowFrame: dex pc *)

\* Addresses of the insns_ arrays of the code items a frame can be given.
CodeItems == {256, 512}

\* Bytes of one code unit (uint16_t).
CodeUnitPtrs(insns) == {insns + 2 * k : k \in 0 .. (MaxInsns - 1)}

\* dex_pc_ptr_ - code_item_->insns_, in uint16_t units.
PtrDistance(ptr, insns) == (ptr - insns) \div 2

\* GetDexPC; the pointer form is only ever set with code_item_ set.
GetDexPC ==
  IF dex_pc_ptr_ = 0 THEN dex_pc_ ELSE PtrDistance(dex_pc_ptr_, code_item_)

PcCall(op, arg, ret, setter, setterArg, index) ==
  [op |-> op, arg |-> arg, ret |-> ret,
   setter |-> setter, setterArg |-> setterArg, index |-> index]

\* The constructor: dex_pc_ptr_(nullptr), code_item_(nullptr), dex_pc_(dex_pc).
PcConstructed ==
  /\ dex_pc_ \in 0 .. (MaxInsns - 1)
  /\ dex_pc_ptr_ = 0
  /\ code_item_ = 0
  /\ pcLast = PcCall("Create", dex_pc_, 0, "Create", dex_pc_, dex_pc_)

SetCodeItem(code_item) ==
  /\ code_item_' = code_item
  /\ pcLast' = [pcLast EXCEPT !.op = "SetCodeItem", !.arg = code_item, !.ret = 0]
  /\ UNCHANGED <<dex_pc_, dex_pc_ptr_>>
  /\ UNCHANGED pcRest

\* Variant: the index is stored and the pointer form is left set.
SetDexPC_KeepPtr(dex_pc) ==
  /\ dex_pc_' = dex_pc
  /\ pcLast' = PcCall("SetDexPC", dex_pc, 0, "SetDexPC", dex_pc, dex_pc)
  /\ UNCHANGED <<dex_pc_ptr_, code_item_>>
  /\ UNCHANGED pcRest

SetDexPC(dex_pc) ==
  /\ dex_pc_' = dex_pc
  /\ dex_pc_ptr_' = 0
  /\ pcLast' = PcCall("SetDexPC", dex_pc, 0, "SetDexPC", dex_pc, dex_pc)
  /\ UNCHANGED code_item_
  /\ UNCHANGED pcRest

\* SetDexPCPtr: the interpreter passes a pointer into the frame's instruction
\* stream, or nullptr.
SetDexPCPtr(dex_pc_ptr) ==
  /\ code_item_ # 0
  /\ dex_pc_ptr \in CodeUnitPtrs(code_item_) \cup {0}
  /\ dex_pc_ptr_' = dex_pc_ptr
  /\ pcLast' = PcCall("SetDexPCPtr", dex_pc_ptr, 0, "SetDexPCPtr", dex_pc_ptr, pcLast.index)
  /\ UNCHANGED <<dex_pc_, code_item_>>
  /\ UNCHANGED pcRest

GetDexPCCall ==
  /\ pcLast' = [pcLast EXCEPT !.op = "GetDexPC", !.arg = 0, !.ret = GetDexPC]
  /\ UNCHANGED <<dex_pc_, dex_pc_ptr_, code_item_>>
  /\ UNCHANGED pcRest

\* The dex pc of the other specifications: as constructed, never touched.
PcIdle ==
  /\ dex_pc_ = 0
  /\ dex_pc_ptr_ = 0
  /\ code_item_ = 0
  /\ pcLast = PcCall("Create", 0, 0, "Create", 0, 0)

-----------------------------------------------------------------------------
(* ShadowFrame accessors under Locks::mutator_lock_ *)

\* Two mutator threads and the collector thread.
Threads == {"mutator1", "mutator2", "collector"}

\* The accessors of ShadowFrame that take a register index, and the two of
\* the method pointer.
RegisterAccessors ==
  {"GetVReg", "GetVRegFloat", "GetVRegLong", "GetVRegDouble", "GetVRegReference",
   "SetVReg", "SetVRegFloat", "SetVRegLong", "SetVRegDouble", "SetVRegReference"}

MethodAccessors == {"SetMethod", "GetMethod"}

\* The thread-safety annotation each accessor carries in its declaration.
Requires(op) ==
  CASE op \in {"GetVRegReference", "SetVRegReference", "GetMethod"} -> "REQUIRES_SHARED"
    [] op = "SetMethod" -> "REQUIRES"
    [] OTHER -> "none"

HoldsShared(t) == t \in mutator_lock_.shared \/ mutator_lock_.exclusive = t

HoldsExclusive(t) == mutator_lock_.exclusive = t

\* ReaderWriterMutex: shared holders exclude an exclusive holder and back.
SharedLock(t) ==
  /\ mutator_lock_.exclusive = "none"
  /\ t \notin mutator_lock_.shared
  /\ mutator_lock_' = [mutator_lock_ EXCEPT !.shared = @ \cup {t}]
  /\ UNCHANGED <<accLast, mlRest>>

SharedUnlock(t) ==
  /\ t \in mutator_lock_.shared
  /\ mutator_lock_' = [mutator_lock_ EXCEPT !.shared = @ \ {t}]
  /\ UNCHANGED <<accLast, mlRest>>

\* The collector takes the lock exclusively for a relocation cycle; a mutator
\* takes it exclusively to call SetMethod.
ExclusiveLock(t) ==
  /\ mutator_lock_.exclusive = "none"
  /\ mutator_lock_.shared = {}
  /\ mutator_lock_' = [mutator_lock_ EXCEPT !.exclusive = t]
  /\ UNCHANGED <<accLast, mlRest>>

ExclusiveUnlock(t) ==
  /\ mutator_lock_.exclusive = t
  /\ mutator_lock_' = [mutator_lock_ EXCEPT !.exclusive = "none"]
  /\ UNCHANGED <<accLast, mlRest>>

\* A relocation cycle is running beside thread t.
Relocating(t) == mutator_lock_.exclusive = "collector" /\ t # "collector"

\* What the annotation of an accessor demands of the calling thread.
Permits(t, op) ==
  CASE Requires(op) = "REQUIRES_SHARED" -> HoldsShared(t)
    [] Requires(op) = "REQUIRES" -> HoldsExclusive(t)
    [] OTHER -> TRUE

\* Thread t calls an accessor of the frame; the effect on the registers is
\* that of the frame's own specification.
AccessorCall(t, op) ==
  /\ t # "collector"
  /\ Permits(t, op)
  /\ accLast' = [op |-> op, thread |-> t,
                 heldShared |-> HoldsShared(t),
                 heldExclusive |-> HoldsExclusive(t),
                 relocating |-> Relocating(t),
                 readers |-> mutator_lock_.shared \ {t}]
  /\ UNCHANGED <<mutator_lock_, mlRest>>

\* The lock of the other specifications: free, no accessor called.
LockIdle ==
  /\ mutator_lock_ = [shared |-> {}, exclusive |-> "none"]
  /\ accLast = [op |-> "none", thread |-> "none", heldShared |-> FALSE,
                heldExclusive |-> FALSE, relocating |-> FALSE, readers |-> {}]

-----------------------------------------------------------------------------
(* dexdiag: page attribution of one dex file *)

\* Section types of kDexSectionInfoMap used in the model, as their names.
kDexTypeHeaderItem == "Header"

SectionTypes == {"StringId", "CodeItem"}

AllTypes == {kDexTypeHeaderItem} \cup SectionTypes

\* Offsets inside a page at which a dex file or a section can begin.
InPageOffsets == {0, 112}

\* Byte offsets of a dex file inside the vdex mapping.
DexOffsets == {pg * kPageSize + d : pg \in 0 .. (MaxPages - 1), d \in InPageOffsets}

\* Pages of the mapping: it holds every dex file whole.
MappingPages == 0 .. (MaxPages + 1)

\* Sizes of a dex file in bytes: part of a page, one page, more than a page.
DexSizes == {112, kPageSize, kPageSize + 112}

\* A section of type t.
Section(t, offset, size) == [type |-> t, offset |-> offset, size |-> size]

\* The sections one type can contribute: empty, or 8 bytes at the start or
\* inside of a page of the dex file.
SectionsOfType(t) ==
  {Section(t, pg * kPageSize + 112, sz) : pg \in 0 .. (MaxPages - 2), sz \in {0, 8}}

\* The header section descriptor: one item at offset 0.
HeaderSection == Section(kDexTypeHeaderItem, 0, 1)

\* sections is sorted from highest offset to lowest.
SortedDescending(q) == \A i \in 1 .. (Len(q) - 1) : q[i].offset >= q[i + 1].offset

\* Section lists: one descriptor per type, the header's included or not.
SectionLists ==
  LET body == {q \in [1 .. 2 -> UNION {SectionsOfType(t) : t \in SectionTypes}] :
                 /\ q[1].type # q[2].type
                 /\ SortedDescending(q)}
  IN body \cup {Append(q, HeaderSection) : q \in body}

\* PageCount(): every type at 0.
PageCountZero == [t \in AllTypes |-> 0]

\* FindSectionTypeForPage: the first section in list order that is non-empty
\* and whose first page is at or before page; the header type if there is none.
RECURSIVE FindSectionTypeFrom(_, _, _)
FindSectionTypeFrom(page, secs, k) ==
  IF k > Len(secs) THEN kDexTypeHeaderItem
  ELSE IF secs[k].size # 0 /\ secs[k].offset \div kPageSize <= page THEN secs[k].type
  ELSE FindSectionTypeFrom(page, secs, k + 1)

FindSectionTypeForPage(page, secs) == FindSectionTypeFrom(page, secs, 1)

\* Pages page with start <= page < end, the range of both loops.
PageRange(a, b) == {page \in MappingPages : a <= page /\ page < b}

\* Number of pages of S counted under type t by FindSectionTypeForPage.
CountOfType(S, secs, t) ==
  Cardinality({page \in S : FindSectionTypeForPage(page, secs) = t})

NothingPrinted ==
  [shown |-> FALSE, rows |-> <<>>, total_resident_pages |-> 0, total_mapped_pages |-> 0,
   percent_of_total |-> 0]

DiagInputsUnchanged ==
  /\ UNCHANGED <<kIsDebugBuild, g_show_statistics, dex_offset, dex_file_size,
                 sections, pagemap>>
  /\ UNCHANGED diagRest

\* ProcessOneDexMapping up to the page range: start is a page number, and end
\* rounds the sum of that page number and the size in bytes up to a page.
ProcessOneDexMapping ==
  /\ dpc = "mapped"
  /\ IF dex_offset < 0
     THEN /\ dpc' = "done"
          /\ UNCHANGED <<start, end>>
     ELSE /\ start' = dex_offset \div kPageSize
          /\ end' = RoundUpTo((dex_offset \div kPageSize) + dex_file_size, kPageSize)
                      \div kPageSize
          /\ dpc' = "ranged"
  /\ UNCHANGED <<attributed, section_resident_pages, printed>>
  /\ DiagInputsUnchanged

\* Variant: every resident page of the mapping is counted, not those of
\* [start, end) only.
ProcessPageMap_WholeMapping ==
  /\ dpc = "ranged"
  /\ LET counted == [page \in DOMAIN pagemap |->
                       IF pagemap[page]
                       THEN FindSectionTypeForPage(page, sections)
                       ELSE "none"]
     IN /\ attributed' = counted
        /\ section_resident_pages' =
             [t \in AllTypes |-> Cardinality({page \in DOMAIN pagemap : counted[page] = t})]
  /\ dpc' = IF g_show_statistics THEN "counted" ELSE "done"
  /\ UNCHANGED <<start, end, printed>>
  /\ DiagInputsUnchanged

\* ProcessPageMap(pagemap, start, end, sections, &section_resident_pages),
\* then the test of g_show_statistics.
ProcessPageMap ==
  /\ dpc = "ranged"
  /\ LET counted == [page \in DOMAIN pagemap |->
                       IF page \in PageRange(start, end) /\ pagemap[page]
                       THEN FindSectionTypeForPage(page, sections)
                       ELSE "none"]
     IN /\ attributed' = counted
        /\ section_resident_pages' =
             [t \in AllTypes |-> Cardinality({page \in DOMAIN pagemap : counted[page] = t})]
  /\ dpc' = IF g_show_statistics THEN "counted" ELSE "done"
  /\ UNCHANGED <<start, end, printed>>
  /\ DiagInputsUnchanged

\* 100.0 * num / den in whole percent, den a size_t that is not 0. A negative
\* den is the bit pattern of a size_t of 2^31 or more: the quotient of a page
\* count of the model by it is below 0.01 and prints as 0.00.
Percent(num, den) == IF den < 0 THEN 0 ELSE (100 * num) \div den

\* The table rows, printed from the last section of the list to the first;
\* percent_resident divides only by a mapped count above 0.
RECURSIVE StatisticsRows(_, _, _, _, _)
StatisticsRows(secs, resident_pages, mapped_pages, total_mapped_pages, i) ==
  IF i = 0 THEN <<>>
  ELSE <<[type |-> secs[i].type,
          resident |-> resident_pages[secs[i].type],
          mapped |-> mapped_pages[secs[i].type],
          percent_resident |->
            IF mapped_pages[secs[i].type] > 0
            THEN Percent(resident_pages[secs[i].type], mapped_pages[secs[i].type])
            ELSE 0,
          percent_of_total |->
            Percent(resident_pages[secs[i].type], total_mapped_pages)]>>
       \o StatisticsRows(secs, resident_pages, mapped_pages, total_mapped_pages, i - 1)

\* DisplayDexStatistics(start, end, section_resident_pages, sections); the
\* size_t difference end - start is kept as the signed value of its bits, the
\* way %zd prints it.
DisplayDexStatistics ==
  /\ dpc = "counted"
  /\ IF kIsDebugBuild /\ ~(end >= start)
     THEN /\ dpc' = "aborted"
          /\ UNCHANGED printed
     ELSE /\ dpc' = "done"
          /\ LET total_mapped_pages == end - start
                 mapped_pages == [t \in AllTypes |->
                                    CountOfType(PageRange(start, end), sections, t)]
                 rows == StatisticsRows(sections, section_resident_pages, mapped_pages,
                                        total_mapped_pages, Len(sections))
                 total_resident_pages ==
                   SumSeq([k \in 1 .. Len(rows) |-> rows[k].resident])
             IN printed' =
                  IF total_mapped_pages = 0 THEN NothingPrinted
                  ELSE [shown |-> TRUE,
                        rows |-> rows,
                        total_resident_pages |-> total_resident_pages,
                        total_mapped_pages |-> total_mapped_pages,
                        percent_of_total |->
                          Percent(total_resident_pages, total_mapped_pages)]
  /\ UNCHANGED <<start, end, attributed, section_resident_pages>>
  /\ DiagInputsUnchanged

\* One dex file of a mapped vdex file, about to be processed.
DexMapped ==
  /\ kIsDebugBuild \in BOOLEAN
  /\ g_show_statistics \in BOOLEAN
  /\ dpc = "mapped"
  /\ dex_offset \in DexOffsets \cup {-112}
  /\ dex_file_size \in DexSizes
  /\ sections \in SectionLists
  /\ pagemap \in [MappingPages -> BOOLEAN]
  /\ start = 0
  /\ end = 0
  /\ attributed = [page \in MappingPages |-> "none"]
  /\ section_resident_pages = PageCountZero
  /\ printed = NothingPrinted

\* dexdiag in the other specifications: not run.
DiagIdle ==
  /\ kIsDebugBuild = FALSE
  /\ g_show_statistics = FALSE
  /\ dpc = "done"
  /\ dex_offset = 0
  /\ dex_file_size = 0
  /\ sections = <<>>
  /\ pagemap = [page \in MappingPages |-> FALSE]
  /\ start = 0
  /\ end = 0
  /\ attributed = [page \in MappingPages |-> "none"]
  /\ section_resident_pages = PageCountZero
  /\ printed = NothingPrinted

-----------------------------------------------------------------------------
(* dexdiag: DexDiagMain *)

\* <cstdlib>: the value returned on every failure path.
EXIT_FAILURE == 1

\* exit_code while DexDiagMain has not returned.
NotReturned == -1

\* The command line: no argument at all, an option that is not -k, -s or -v,
\* or options and a last argument.
ArgKinds == {"missing", "unknown_option", "ok"}

\* The last argument: not a number, the number of no process, of a process.
PidKinds == {"not_a_number", "no_such_process", "live"}

\* A mapping: its name holds ".vdex" or not, and what opening it yields.
MapKind(vdex, open, dex_files, pagemap_ok) ==
  [vdex |-> vdex, open |-> open, dex_files |-> dex_files, pagemap_ok |-> pagemap_ok]

MapKinds ==
  {MapKind(FALSE, FALSE, FALSE, FALSE)}
    \cup {MapKind(TRUE, o, d, pm) : o \in BOOLEAN, d \in BOOLEAN, pm \in BOOLEAN}

MapLists == UNION {[1 .. n -> MapKinds] : n \in 0 .. MaxMaps}

Exit(code, message) ==
  /\ exit_code' = code
  /\ cerr' = IF message = "" THEN cerr ELSE Append(cerr, message)
  /\ mpc' = "exited"

\* DexDiagMain up to the loop over the mappings.
DexDiagMain ==
  /\ mpc = "main"
  /\ IF env.args = "missing" THEN Exit(EXIT_FAILURE, "Usage")
     ELSE IF env.args = "unknown_option" THEN Exit(EXIT_FAILURE, "Usage")
     ELSE IF env.pid # "live" THEN Exit(EXIT_FAILURE, "Invalid PID")
     ELSE IF ~env.pm_kernel_create
       THEN Exit(EXIT_FAILURE, "Error creating kernel interface")
     ELSE IF ~env.pm_process_create
       THEN Exit(EXIT_FAILURE, "Error creating process interface")
     ELSE IF ~env.pm_process_maps THEN Exit(EXIT_FAILURE, "Error listing maps.")
     ELSE /\ mpc' = "maps"
          /\ UNCHANGED <<cerr, exit_code>>
  /\ UNCHANGED <<env, maps, map_index, reported>>
  /\ UNCHANGED mainRest

\* One turn of the loop: DisplayMappingIfFromVdexFile(maps[i]) and the test of
\* its result.  A failure of OpenAllDexFiles is reported and the mapping is
\* displayed with the dex files that were opened.
DisplayMappingIfFromVdexFile ==
  /\ mpc = "maps"
  /\ map_index < Len(maps)
  /\ LET map == maps[map_index + 1]
         said == IF map.dex_files THEN cerr
                 ELSE Append(cerr, "Dex files could not be opened")
     IN IF ~map.vdex
        THEN /\ reported' = Append(reported, "skipped")
             /\ map_index' = map_index + 1
             /\ UNCHANGED <<cerr, exit_code, mpc>>
        ELSE IF ~map.open
        THEN /\ reported' = Append(reported, "failed")
             /\ Exit(EXIT_FAILURE, "Could not open vdex file")
             /\ UNCHANGED map_index
        ELSE IF ~map.pagemap_ok
        THEN /\ reported' = Append(reported, "failed")
             /\ exit_code' = EXIT_FAILURE
             /\ cerr' = Append(said, "Error creating pagemap.")
             /\ mpc' = "exited"
             /\ UNCHANGED map_index
        ELSE /\ reported' = Append(reported, IF map.dex_files THEN "displayed"
                                                              ELSE "displayed_partly")
             /\ cerr' = said
             /\ map_index' = map_index + 1
             /\ UNCHANGED <<exit_code, mpc>>
  /\ UNCHANGED <<env, maps>>
  /\ UNCHANGED mainRest

\* After the last mapping: the key if asked for, and return 0.
ReturnFromMain ==
  /\ mpc = "maps"
  /\ map_index = Len(maps)
  /\ Exit(0, "")
  /\ UNCHANGED <<env, maps, map_index, reported>>
  /\ UNCHANGED mainRest

\* dexdiag started on a command line.
MainEntered ==
  /\ env \in [args : ArgKinds, pid : PidKinds, pm_kernel_create : BOOLEAN,
               pm_process_create : BOOLEAN, pm_process_maps : BOOLEAN]
  /\ maps \in MapLists
  /\ mpc = "main"
  /\ map_index = 0
  /\ cerr = <<>>
  /\ reported = <<>>
  /\ exit_code = NotReturned

\* DexDiagMain in the other specifications: not run.
MainIdle ==
  /\ env = [args |-> "missing", pid |-> "not_a_number", pm_kernel_create |-> FALSE,
            pm_process_create |-> FALSE, pm_process_maps |-> FALSE]
  /\ maps = <<>>
  /\ mpc = "idle"
  /\ map_index = 0
  /\ cerr = <<>>
  /\ reported = <<>>
  /\ exit_code = NotReturned

-----------------------------------------------------------------------------
(* StackVisitor: register offsets in a compiled frame *)

\* Instruction sets: pointer size, bytes of a spilled core register and of a
\* spilled floating-point register.
InstructionSets ==
  {[name |-> "kArm", pointer_size |-> 4, gpr |-> 4, fpr |-> 4],
   [name |-> "kX86", pointer_size |-> 4, gpr |-> 4, fpr |-> 8],
   [name |-> "kArm64", pointer_size |-> 8, gpr |-> 8, fpr |-> 8]}

InstructionSetPointerSize(isa) == isa.pointer_size

\* Spill masks: no register, one, two.
SpillMasks == {0, 1, 3}

RECURSIVE POPCOUNT(_)
POPCOUNT(x) == IF x = 0 THEN 0 ELSE (x % 2) + POPCOUNT(x \div 2)

\* Code items: registers_size_ counts the locals and the ins.
QuickCodeItems ==
  {[registers_size_ |-> r, ins_size_ |-> i, outs_size_ |-> o] :
     r \in 1 .. MaxRegs, i \in 0 .. 1, o \in 0 .. MaxOuts}

\* Callee-save spills and the filler word.
SpillSize(isa, core_spills, fp_spills) ==
  POPCOUNT(core_spills) * isa.gpr + POPCOUNT(fp_spills) * isa.fpr + kVRegSize

\* The frame size the code generator gives the layout of the diagram: method
\* slot, outs, padding, locals, filler and spills, the sum aligned.
QuickFrameSize(isa, core_spills, fp_spills, code_item) ==
  RoundUpTo(isa.pointer_size
              + code_item.outs_size_ * kVRegSize
              + (code_item.registers_size_ - code_item.ins_size_) * kVRegSize
              + SpillSize(isa, core_spills, fp_spills),
            kStackAlignment)

\* GetVRegOffsetFromQuickCode(code_item, core_spills, fp_spills, frame_size, reg, isa)
GetVRegOffsetFromQuickCode(code_item, core_spills, fp_spills, fsize, reg, isa) ==
  LET spill_size == SpillSize(isa, core_spills, fp_spills)
      num_regs == code_item.registers_size_ - code_item.ins_size_
      temp_threshold == code_item.registers_size_
      temps_start == code_item.outs_size_ * kVRegSize + InstructionSetPointerSize(isa)
      locals_start == fsize - spill_size - num_regs * kVRegSize
  IN IF reg = temp_threshold THEN 0
     ELSE IF reg >= temp_threshold + 1
       THEN temps_start + (reg - (temp_threshold + 1)) * kVRegSize
     ELSE IF reg < num_regs THEN locals_start + reg * kVRegSize
     ELSE fsize + (reg - num_regs) * kVRegSize + InstructionSetPointerSize(isa)

\* Variant: the first out is placed on the method reference.
GetOutVROffset_OnMethod(out_num, isa) == out_num * kVRegSize

GetOutVROffset(out_num, isa) == InstructionSetPointerSize(isa) + out_num * kVRegSize

\* Kind of register index reg: a local, an in, or the method pointer.
RegKind(code_item, reg) ==
  IF reg = code_item.registers_size_ THEN "method"
  ELSE IF reg < code_item.registers_size_ - code_item.ins_size_ THEN "local"
  ELSE "in"

GetVRegOffsetCall(reg) ==
  /\ reg \in 0 .. quick.code_item.registers_size_
  /\ offsets' = offsets \cup
       {[kind |-> RegKind(quick.code_item, reg), reg |-> reg,
         offset |-> GetVRegOffsetFromQuickCode(quick.code_item, quick.core_spills,
                                               quick.fp_spills, quick.frame_size,
                                               reg, quick.isa)]}
  /\ offsets' # offsets
  /\ UNCHANGED quick
  /\ UNCHANGED quickRest

GetOutVROffsetCall(out_num) ==
  /\ out_num \in 0 .. (quick.code_item.outs_size_ - 1)
  /\ offsets' = offsets \cup
       {[kind |-> "out", reg |-> out_num, offset |-> GetOutVROffset(out_num, quick.isa)]}
  /\ offsets' # offsets
  /\ UNCHANGED quick
  /\ UNCHANGED quickRest

QuickLayout(isa, core_spills, fp_spills, code_item) ==
  [isa |-> isa, core_spills |-> core_spills, fp_spills |-> fp_spills,
   frame_size |-> QuickFrameSize(isa, core_spills, fp_spills, code_item),
   code_item |-> code_item]

\* A compiled frame of some method, no offset computed yet.
QuickFrameEntered ==
  /\ quick \in {QuickLayout(isa, c, f, ci) :
                   isa \in InstructionSets, c \in SpillMasks, f \in SpillMasks,
                   ci \in QuickCodeItems}
  /\ quick.code_item.ins_size_ <= quick.code_item.registers_size_
  /\ offsets = {}

\* The compiled frame of the other specifications: none looked at.
QuickIdle ==
  /\ quick = QuickLayout(CHOOSE isa \in InstructionSets : isa.name = "kArm", 0, 0,
                         [registers_size_ |-> 1, ins_size_ |-> 0, outs_size_ |-> 0])
  /\ offsets = {}

-----------------------------------------------------------------------------
(* ShadowFrame: the interpreter-frame chain *)

\* Addresses of the frames that can be constructed; 0 is nullptr.
FrameAddrs == 1 .. MaxLinked

GetLink(f) == link_[f]

\* The constructor: link_(link), the link a frame constructed before or null.
CreateLinked(f, link) ==
  /\ f \in FrameAddrs \ DOMAIN link_
  /\ link \in DOMAIN link_ \cup {0}
  /\ link_' = [g \in DOMAIN link_ \cup {f} |-> IF g = f THEN link ELSE link_[g]]
  /\ linkLast' = [op |-> "Create", this |-> f, frame |-> link]
  /\ UNCHANGED linkRest

\* SetLink(frame) on this: DCHECK_NE(this, frame); link_ = frame.
SetLink(this, frame) ==
  /\ this \in DOMAIN link_
  /\ frame \in DOMAIN link_ \cup {0}
  /\ this # frame
  /\ link_' = [link_ EXCEPT ![this] = frame]
  /\ linkLast' = [op |-> "SetLink", this |-> this, frame |-> frame]
  /\ UNCHANGED linkRest

\* A walk from f along GetLink() reaches nullptr within steps links.
RECURSIVE ReachesNull(_, _)
ReachesNull(f, steps) ==
  IF f = 0 THEN TRUE
  ELSE IF steps = 0 THEN FALSE
  ELSE ReachesNull(GetLink(f), steps - 1)

\* No frame constructed.
LinkIdle ==
  /\ link_ = <<>>
  /\ linkLast = [op |-> "none", this |-> 0, frame |-> 0]

MoreIdle == PcIdle /\ LockIdle /\ DiagIdle /\ MainIdle /\ QuickIdle /\ LinkIdle

-----------------------------------------------------------------------------
(* Specification of one ShadowFrame *)

\* A buffer of ComputeSize(num_vregs) bytes, not yet constructed.
FrameAllocated ==
  /\ kMovingCollector \in BOOLEAN
  /\ ptrSize \in PointerSizes
  /\ alloc_vregs \in 0 .. MaxVRegs
  /\ frame_size = ComputeSize(ptrSize, alloc_vregs)
  /\ fpc = "alloc"
  /\ \E j \in UninitWords :
       /\ number_of_vregs_ = j
       /\ cached_hotness_countdown_ = j
       /\ hotness_countdown_ = j
       /\ vregs_ = [k \in 0 .. (2 * alloc_vregs) |-> j]
  /\ memsetBegin = 0
  /\ memsetLen = 0
  /\ overrun = FALSE
  /\ frameLast = Last("none", 0, FALSE)

\* The frame of the other specifications: a constructed frame without registers.
FrameIdle ==
  /\ kMovingCollector = TRUE
  /\ ptrSize = 8
  /\ alloc_vregs = 0
  /\ frame_size = ComputeSize(8, 0)
  /\ fpc = "live"
  /\ number_of_vregs_ = 0
  /\ cached_hotness_countdown_ = 0
  /\ hotness_countdown_ = 0
  /\ vregs_ = [k \in {0} |-> 0]
  /\ memsetBegin = VRegsOffset(8)
  /\ memsetLen = 0
  /\ overrun = FALSE
  /\ frameLast = Last("Create", 0, FALSE)

InitFrame == FrameAllocated /\ LedgerEmpty /\ WalkIdle /\ MoreIdle

NextFrame ==
  \/ CreateShadowFrameImpl
  \/ \E val \in HotnessVals : SetCachedHotnessCountdown(val)
  \/ \E val \in HotnessVals : SetHotnessCountdown(val)
  \/ \E i \in 0 .. (MaxVRegs - 1), val \in IntVals : SetVReg(i, val)
  \/ \E i \in 0 .. (MaxVRegs - 1), val \in FloatBits : SetVRegFloat(i, val)
  \/ \E i \in 0 .. (MaxVRegs - 1), val \in LongVals : SetVRegLong(i, val)
  \/ \E i \in 0 .. (MaxVRegs - 1), val \in DoubleBits : SetVRegDouble(i, val)
  \/ \E i \in 0 .. (MaxVRegs - 1) : GetVRegLong(i)
  \/ \E i \in 0 .. (MaxVRegs - 1) : GetVRegDouble(i)
  \/ \E i \in 0 .. (MaxVRegs - 1), val \in Objects \cup {0} : SetVRegReference(i, val)
  \/ \E a \in Addresses(ptrSize) : ContainsCall(a)

SpecFrame == InitFrame /\ [][NextFrame]_vars

-----------------------------------------------------------------------------
(* Specification of one monitor ledger *)

InitLock == FrameIdle /\ LedgerEmpty /\ WalkIdle /\ MoreIdle

NextLock ==
  \/ \E obj \in MonitorObjects : AddMonitor(obj)
  \/ \E obj \in MonitorObjects : RemoveMonitorOrThrow(obj)
  \/ CheckAllMonitorsReleasedOrThrow
  \/ ThrowOther
  \/ ClearException

SpecLock == InitLock /\ [][NextLock]_vars

-----------------------------------------------------------------------------
(* Specification of one stack walk *)

InitWalk == FrameIdle /\ LedgerEmpty /\ VisitorConstructed /\ MoreIdle

NextWalk ==
  \/ \E count \in CountPolicies, transitions \in BOOLEAN : WalkStack(count, transitions)
  \/ \E ret \in BOOLEAN : VisitInlinedFrame(ret)
  \/ \E ret \in BOOLEAN : VisitQuickFrame(ret)
  \/ \E ret \in BOOLEAN : VisitShadowFrame(ret)
  \/ \E ret \in BOOLEAN : VisitTransition(ret)
  \/ SkipTransition

\* WalkStack is one synchronous loop of the calling thread: a step that can be
\* taken is taken.
SpecWalk == InitWalk /\ [][NextWalk]_vars /\ WF_vars(NextWalk)

-----------------------------------------------------------------------------
(* Specification of one frame's dex pc *)

InitPc ==
  /\ FrameIdle /\ LedgerEmpty /\ WalkIdle
  /\ PcConstructed /\ LockIdle /\ DiagIdle /\ MainIdle /\ QuickIdle /\ LinkIdle

NextPc ==
  \/ \E code_item \in CodeItems : SetCodeItem(code_item)
  \/ \E dex_pc \in 0 .. (MaxInsns - 1) : SetDexPC(dex_pc)
  \/ \E ptr \in CodeUnitPtrs(code_item_) \cup {0} : SetDexPCPtr(ptr)
  \/ GetDexPCCall

SpecPc == InitPc /\ [][NextPc]_vars

-----------------------------------------------------------------------------
(* Specification of the threads calling a frame's accessors *)

InitMutator ==
  /\ FrameIdle /\ LedgerEmpty /\ WalkIdle
  /\ PcIdle /\ LockIdle /\ DiagIdle /\ MainIdle /\ QuickIdle /\ LinkIdle

NextMutator ==
  \/ \E t \in Threads : SharedLock(t)
  \/ \E t \in Threads : SharedUnlock(t)
  \/ \E t \in Threads : ExclusiveLock(t)
  \/ \E t \in Threads : ExclusiveUnlock(t)
  \/ \E t \in Threads, op \in RegisterAccessors \cup MethodAccessors : AccessorCall(t, op)

SpecMutator == InitMutator /\ [][NextMutator]_vars

-----------------------------------------------------------------------------
(* Specification of dexdiag on one dex file *)

InitDiag ==
  /\ FrameIdle /\ LedgerEmpty /\ WalkIdle
  /\ PcIdle /\ LockIdle /\ DexMapped /\ MainIdle /\ QuickIdle /\ LinkIdle

NextDiag ==
  \/ ProcessOneDexMapping
  \/ ProcessPageMap
  \/ DisplayDexStatistics

SpecDiag == InitDiag /\ [][NextDiag]_vars

-----------------------------------------------------------------------------
(* Specification of one run of dexdiag *)

InitMain ==
  /\ FrameIdle /\ LedgerEmpty /\ WalkIdle
  /\ PcIdle /\ LockIdle /\ DiagIdle /\ MainEntered /\ QuickIdle /\ LinkIdle

NextMain ==
  \/ DexDiagMain
  \/ DisplayMappingIfFromVdexFile
  \/ ReturnFromMain

SpecMain == InitMain /\ [][NextMain]_vars

-----------------------------------------------------------------------------
(* Specification of the offsets of one compiled frame *)

InitQuick ==
  /\ FrameIdle /\ LedgerEmpty /\ WalkIdle
  /\ PcIdle /\ LockIdle /\ DiagIdle /\ MainIdle /\ QuickFrameEntered /\ LinkIdle

NextQuick ==
  \/ \E reg \in 0 .. MaxRegs : GetVRegOffsetCall(reg)
  \/ \E out_num \in 0 .. (MaxOuts - 1) : GetOutVROffsetCall(out_num)

SpecQuick == InitQuick /\ [][NextQuick]_vars

-----------------------------------------------------------------------------
(* Specification of the interpreter-frame chain *)

InitLink ==
  /\ FrameIdle /\ LedgerEmpty /\ WalkIdle
  /\ PcIdle /\ LockIdle /\ DiagIdle /\ MainIdle /\ QuickIdle /\ LinkIdle

NextLink ==
  \/ \E f \in FrameAddrs, link \in FrameAddrs \cup {0} : CreateLinked(f, link)
  \/ \E this \in FrameAddrs, frame \in FrameAddrs \cup {0} : SetLink(this, frame)

SpecLink == InitLink /\ [][NextLink]_vars

-----------------------------------------------------------------------------
(* ShadowFrame properties *)

NarrowWrites == {"SetVReg", "SetVRegFloat"}

\* C1: under a moving collector, a narrow non-reference write to a register
\* whose shadow slot held a reference leaves GetVRegReference(i) null,
\* whatever value was written.
C1_NarrowWriteClearsReference ==
  (kMovingCollector /\ frameLast.op \in NarrowWrites /\ frameLast.hadRef)
    => GetVRegReference(frameLast.i) = 0

\* C1 witness: SetVReg overwrote a live reference with the int whose bits equal
\* an object address, under a moving collector.
C1_Witness ==
  /\ kMovingCollector
  /\ frameLast.op = "SetVReg"
  /\ frameLast.hadRef
  /\ GetVReg(frameLast.i) \in Objects

\* C2: under a moving collector, in every state reached by accepted register
\* writes, a non-null shadow slot i holds the same bits as raw slot i.
C2_ShadowMirrorsRaw ==
  (fpc = "live" /\ kMovingCollector)
    => \A i \in 0 .. (NumberOfVRegs - 1) :
         GetVRegReference(i) # 0 => GetVReg(i) = GetVRegReference(i)

\* C10 as stated: construction stays inside the ComputeSize(N) buffer, the
\* cleared region starts at sizeof(ShadowFrame) and spans ComputeSize(N) minus
\* sizeof(ShadowFrame), every raw and shadow slot reads 0, both counters are 0.
C10_ZeroRegionStartsAtSizeof ==
  frameLast.op = "Create"
    => /\ ~overrun
       /\ memsetBegin = SizeofShadowFrame(ptrSize)
       /\ memsetLen = frame_size - SizeofShadowFrame(ptrSize)
       /\ \A i \in 0 .. (NumberOfVRegs - 1) :
            GetVReg(i) = 0 /\ GetVRegReference(i) = 0
       /\ cached_hotness_countdown_ = 0
       /\ hotness_countdown_ = 0

\* C10 amended: the cleared region starts at vregs_, which is sizeof(ShadowFrame)
\* on a 32-bit target and 4 bytes before it on a 64-bit target; it spans
\* ComputeSize(N) minus sizeof(ShadowFrame) bytes and ends inside the buffer;
\* every raw slot reads 0, every shadow slot null, both counters 0.
C10_ConstructionInsideBuffer ==
  frameLast.op = "Create"
    => /\ ~overrun
       /\ memsetBegin = (IF ptrSize = 4 THEN SizeofShadowFrame(ptrSize)
                                        ELSE SizeofShadowFrame(ptrSize) - 4)
       /\ memsetLen = frame_size - SizeofShadowFrame(ptrSize)
       /\ memsetBegin + memsetLen <= frame_size
       /\ \A i \in 0 .. (NumberOfVRegs - 1) :
            GetVReg(i) = 0 /\ GetVRegReference(i) = 0
       /\ cached_hotness_countdown_ = 0
       /\ hotness_countdown_ = 0

\* C10 witness: a frame with the largest register count was just constructed
\* on a 64-bit target.
C10_Witness ==
  /\ frameLast.op = "Create"
  /\ NumberOfVRegs = MaxVRegs
  /\ ptrSize = 8
  /\ GetVRegReference(NumberOfVRegs - 1) = 0

\* Address a is the address of one of the frame's N shadow-reference slots.
IsShadowSlot(a) ==
  \E i \in 0 .. (NumberOfVRegs - 1) : a = RefSlotAddr(ptrSize, NumberOfVRegs, i)

\* C11: Contains(a) is true if and only if a is the address of one of the
\* frame's N shadow-reference slots; a frame with N = 0 contains no address.
C11_ContainsIffShadowSlot ==
  frameLast.op = "Contains" => (frameLast.ret <=> IsShadowSlot(frameLast.addr))

\* C12 as stated: GetDexPC returns the value given by the most recent setter
\* call, the index p after SetDexPC(p) and the pointer's distance from the
\* instruction-stream base after SetDexPCPtr(ptr), whatever ptr is.
C12_LastSetterDecides ==
  pcLast.op = "GetDexPC"
    => /\ pcLast.setter = "SetDexPC" => pcLast.ret = pcLast.setterArg
       /\ pcLast.setter = "SetDexPCPtr"
            => pcLast.ret = PtrDistance(pcLast.setterArg, code_item_)

\* C12 amended: GetDexPC returns p after SetDexPC(p), the pointer's distance
\* from the instruction-stream base after SetDexPCPtr(ptr) with ptr non-null,
\* and after SetDexPCPtr(nullptr) the index stored by the most recent SetDexPC
\* or by the constructor; while dex_pc_ptr_ is non-null the stored index is
\* not what is returned.
C12_NonNullPointerDecides ==
  pcLast.op = "GetDexPC"
    => /\ pcLast.setter = "SetDexPC" => pcLast.ret = pcLast.setterArg
       /\ (pcLast.setter = "SetDexPCPtr" /\ pcLast.setterArg # 0)
            => pcLast.ret = PtrDistance(pcLast.setterArg, code_item_)
       /\ (pcLast.setter = "SetDexPCPtr" /\ pcLast.setterArg = 0)
            => pcLast.ret = pcLast.index
       /\ pcLast.setter = "Create" => pcLast.ret = pcLast.index
       /\ dex_pc_ptr_ # 0 => pcLast.ret = PtrDistance(dex_pc_ptr_, code_item_)
       /\ pcLast.index = dex_pc_

\* C12 witness: with index p stored, GetDexPC after SetDexPCPtr(ptr) returned
\* the distance of ptr, which is not p.
C12_Witness ==
  /\ pcLast.op = "GetDexPC"
  /\ pcLast.setter = "SetDexPCPtr"
  /\ pcLast.setterArg \in CodeUnitPtrs(code_item_)
  /\ pcLast.ret = PtrDistance(pcLast.setterArg, code_item_)
  /\ pcLast.ret # pcLast.index

\* C13: every register and reference accessor runs only while its caller holds
\* the mutator lock in shared mode, so none runs beside a relocation cycle;
\* SetMethod runs only with the lock held exclusively, beside no reader.
C13_AccessorsHoldMutatorLock ==
  /\ accLast.op \in RegisterAccessors
       => accLast.heldShared /\ ~accLast.relocating
  /\ accLast.op = "SetMethod"
       => accLast.heldExclusive /\ accLast.readers = {}

\* The accessors that do carry an annotation keep to it: GetVRegReference,
\* SetVRegReference and GetMethod run with the lock held shared and beside no
\* relocation cycle, SetMethod with it held exclusively.
AnnotatedAccessorsHoldMutatorLock ==
  /\ accLast.op \in {"GetVRegReference", "SetVRegReference", "GetMethod"}
       => accLast.heldShared /\ ~accLast.relocating
  /\ accLast.op = "SetMethod"
       => accLast.heldExclusive /\ accLast.readers = {}

-----------------------------------------------------------------------------
(* dexdiag properties *)

\* The page range has been computed.
Ranged == dpc # "mapped" /\ dex_offset >= 0

\* The pages of the mapping that hold at least one byte of the dex file.
UnitPages ==
  {page \in MappingPages :
     /\ page * kPageSize < dex_offset + dex_file_size
     /\ (page + 1) * kPageSize > dex_offset}

\* ProcessPageMap has run.
Counted == Ranged /\ dpc # "ranged"

\* C14: wherever the dex file starts in the vdex file, each resident page of
\* the dex file is attributed to the non-empty section with the highest
\* offset that starts at or before that page of the dex file, to the header
\* when there is none, and a non-resident page to no section.
C14_PageAttributedToItsSection ==
  Counted
    => \A page \in UnitPages :
         attributed[page] =
           (IF pagemap[page]
            THEN FindSectionTypeForPage(page - (dex_offset \div kPageSize), sections)
            ELSE "none")

\* C15: end >= start, and [start, end) holds exactly the pages that hold at
\* least one byte of the dex file.
C15_PageRangeCoversTheUnit ==
  Ranged => /\ end >= start
            /\ PageRange(start, end) = UnitPages

\* C16: in the printed statistics the per-section resident counts sum to the
\* grand-total resident count, which is the number of resident pages in
\* [start, end), and the per-section mapped counts sum to the grand-total
\* mapped count end - start.
C16_RowsSumToGrandTotals ==
  printed.shown
    => /\ SumSeq([k \in 1 .. Len(printed.rows) |-> printed.rows[k].resident])
            = printed.total_resident_pages
       /\ printed.total_resident_pages
            = Cardinality({page \in PageRange(start, end) :
                             pagemap[page]})
       /\ SumSeq([k \in 1 .. Len(printed.rows) |-> printed.rows[k].mapped])
            = printed.total_mapped_pages
       /\ printed.total_mapped_pages = end - start

\* a <= b for two size_t values held as the signed values of their bits.
SizeLeq(a, b) ==
  IF a >= 0 THEN (b < 0 \/ a <= b) ELSE (b < 0 /\ a <= b)

\* C22: in the printed statistics every section's resident count is at most its
\* mapped count and the grand-total resident count is at most the grand-total
\* mapped count, every printed percentage lies in [0, 100], and no percentage
\* is computed with a zero divisor.
C22_PercentagesInRange ==
  printed.shown
    => /\ \A k \in 1 .. Len(printed.rows) :
            LET row == printed.rows[k]
            IN /\ SizeLeq(row.resident, row.mapped)
               /\ row.percent_resident \in 0 .. 100
               /\ row.percent_of_total \in 0 .. 100
               /\ row.percent_resident # 0 => row.mapped # 0
       /\ SizeLeq(printed.total_resident_pages, printed.total_mapped_pages)
       /\ printed.percent_of_total \in 0 .. 100
       /\ printed.total_mapped_pages # 0

\* C22 witness: a table was printed in which one section has a resident page
\* and the unit has more mapped pages than resident ones.
C22_Witness ==
  /\ printed.shown
  /\ \E k \in 1 .. Len(printed.rows) :
       /\ printed.rows[k].resident >= 1
       /\ printed.rows[k].percent_resident = 100
  /\ printed.total_resident_pages >= 1
  /\ printed.total_resident_pages < printed.total_mapped_pages
  /\ printed.percent_of_total \in 1 .. 99

\* Every argument, the pid, the residency table and every vdex-backed mapping
\* of the run was in order.
AllInOrder ==
  /\ env.args = "ok"
  /\ env.pid = "live"
  /\ env.pm_kernel_create /\ env.pm_process_create /\ env.pm_process_maps
  /\ \A k \in 1 .. Len(maps) :
       maps[k].vdex => maps[k].open /\ maps[k].dex_files /\ maps[k].pagemap_ok

\* C17: DexDiagMain returns 0 only if every vdex-backed mapping was fully
\* opened and reported, and returns non-zero after a message on standard error
\* on bad arguments, a bad pid, an unreadable residency table and any failure
\* to open a mapped vdex file, a failure to open its dex files included.
C17_ZeroOnlyIfAllReported ==
  mpc = "exited"
    => /\ exit_code = 0 => AllInOrder
       /\ exit_code # 0 => Len(cerr) > 0
       /\ ~AllInOrder => exit_code # 0

\* What a narrow write of val to register i may change: raw slot i, which reads
\* val afterwards, and under a moving collector shadow slot i; nothing else.
NarrowWriteEffect(i, val) ==
  /\ GetVReg(i)' = val
  /\ \A k \in DOMAIN vregs_ :
       (k # i /\ ~(kMovingCollector /\ k = RefIndex(NumberOfVRegs, i)))
         => vregs_'[k] = vregs_[k]
  /\ DOMAIN vregs_' = DOMAIN vregs_
  /\ UNCHANGED <<overrun, number_of_vregs_, cached_hotness_countdown_, hotness_countdown_>>
  /\ UNCHANGED <<link_, dex_pc_, dex_pc_ptr_, code_item_, monitors_>>

\* C21: a narrow write SetVReg(i, v) or SetVRegFloat(i, v) with i < N changes
\* nothing but raw slot i and, under a moving collector, shadow slot i: every
\* other raw and shadow slot, the link, the dex pc and the lock ledger are
\* unchanged, and GetVReg(i) returns v afterwards.
C21_NarrowWriteTouchesOneRegister ==
  [][/\ \A i \in 0 .. (MaxVRegs - 1), val \in IntVals :
          SetVReg(i, val) => NarrowWriteEffect(i, val)
     /\ \A i \in 0 .. (MaxVRegs - 1), val \in FloatBits :
          SetVRegFloat(i, val) => NarrowWriteEffect(i, val)]_vars

\* C21 witness: under a moving collector a narrow write to one register of a
\* two-register frame was made while the other register holds a reference.
C21_Witness ==
  /\ kMovingCollector
  /\ fpc = "live"
  /\ NumberOfVRegs = 2
  /\ frameLast.op \in NarrowWrites
  /\ GetVReg(frameLast.i) \in IntVals \cup FloatBits
  /\ GetVRegReference(frameLast.i) = 0
  /\ GetVReg(1 - frameLast.i) \in Objects
  /\ GetVRegReference(1 - frameLast.i) \in Objects

\* C19: every accepted register accessor call touches only the frame's own
\* slots: a wide write or read at index i, the call with i = N - 1 included,
\* touches raw slots i and i + 1 and shadow slots i and i + 1 inside [0, N), and
\* no accepted call touches a raw or a shadow slot of index N or above.
C19_AcceptedCallsStayInFrame ==
  fpc = "live"
    => /\ RawTouched(frameLast.op, frameLast.i) \subseteq 0 .. (NumberOfVRegs - 1)
       /\ ShadowTouched(frameLast.op, frameLast.i) \subseteq 0 .. (NumberOfVRegs - 1)

\* C20: after any constructions and SetLink calls that each pass SetLink's
\* check, following GetLink() from any frame reaches null in finitely many
\* steps: the link chain of every frame is acyclic.
C20_LinkChainAcyclic ==
  \A f \in DOMAIN link_ : ReachesNull(f, Cardinality(DOMAIN link_))

-----------------------------------------------------------------------------
(* Compiled-frame offset properties *)

\* The byte ranges [a, a + m) and [b, b + n) share a byte.
Overlap(a, m, b, n) == a < b + n /\ b < a + m

\* Offset off of a 4-byte slot lies on the method-reference slot at offset 0.
OnMethodSlot(off) == Overlap(off, kVRegSize, 0, InstructionSetPointerSize(quick.isa))

\* C18: within one frame two distinct local registers never overlap, no local
\* register overlaps the method-reference slot at offset 0, and out k, at
\* pointer size + 4 * k, overlaps neither that slot nor another out.
C18_OffsetsCollisionFree ==
  \A a \in offsets : \A b \in offsets :
    /\ (a.kind = "local" /\ b.kind = "local" /\ a.reg # b.reg)
         => ~Overlap(a.offset, kVRegSize, b.offset, kVRegSize)
    /\ a.kind = "local" => ~OnMethodSlot(a.offset)
    /\ a.kind = "out"
         => /\ a.offset = InstructionSetPointerSize(quick.isa) + kVRegSize * a.reg
            /\ ~OnMethodSlot(a.offset)
    /\ (a.kind = "out" /\ b.kind = "out" /\ a.reg # b.reg)
         => ~Overlap(a.offset, kVRegSize, b.offset, kVRegSize)

\* C18 witness: in a frame with 8-byte pointers the offsets of two locals, of
\* two outs and of the method pointer have been computed.
C18_Witness ==
  /\ InstructionSetPointerSize(quick.isa) = 8
  /\ \E a \in offsets : \E b \in offsets :
       a.kind = "local" /\ b.kind = "local" /\ a.reg # b.reg
  /\ \E a \in offsets : \E b \in offsets :
       a.kind = "out" /\ b.kind = "out" /\ a.reg # b.reg
  /\ \E a \in offsets : a.kind = "method" /\ a.offset = 0

-----------------------------------------------------------------------------
(* LockCountData properties *)

\* C3: CheckAllMonitorsReleasedOrThrow raises IllegalMonitorState, and returns
\* false, exactly when the ledger is non-empty; it does not raise when every
\* AddMonitor call has been matched by a successful remove.
C3_CheckRaisesIffNonEmpty ==
  lockLast.op = "Check"
    => /\ lockLast.raised <=> (Len(lockLast.before) > 0)
       /\ lockLast.ret <=> ~lockLast.raised
       /\ lockLast.raised => lockLast.left = "IllegalMonitorState"
       /\ (TotalAddCalls = TotalRemoves) => ~lockLast.raised

\* C3 witness: the check ran after two adds and two successful removes and
\* returned true.
C3_Witness ==
  /\ lockLast.op = "Check"
  /\ TotalAddCalls = 2
  /\ TotalRemoves = 2
  /\ lockLast.ret

\* C4: the ledger holds, for each object, as many entries as adds that appended
\* minus successful removes; an add with no exception pending appends one entry
\* and a successful remove deletes exactly one entry of its object and no other.
C4_RecursiveLocksCounted ==
  /\ \A o \in MonitorObjects : Count(monitors_, o) = addsOf[o] - removesOf[o]
  /\ (lockLast.op = "Add" /\ ~lockLast.skipped)
       => monitors_ = Append(lockLast.before, lockLast.obj)
  /\ (lockLast.op = "Remove" /\ ~lockLast.raised)
       => \E k \in Matches(lockLast.before, lockLast.obj) :
            monitors_ = RemoveAt(lockLast.before, k)

\* C4 witness: an object locked twice and unlocked once has one entry left.
C4_Witness ==
  /\ lockLast.op = "Remove"
  /\ ~lockLast.raised
  /\ addsOf[lockLast.obj] = 2
  /\ removesOf[lockLast.obj] = 1
  /\ Count(monitors_, lockLast.obj) = 1

\* C5 as stated: a remove that finds no entry of its object raises
\* IllegalMonitorState in place of any pending exception and leaves the ledger
\* unchanged; AddMonitor(X) followed by RemoveMonitorOrThrow(X) raises nothing.
C5_AddThenRemoveNeverRaises ==
  lockLast.op = "Remove"
    => /\ Matches(lockLast.before, lockLast.obj) = {}
            => /\ lockLast.raised
               /\ lockLast.left = "IllegalMonitorState"
               /\ monitors_ = lockLast.before
       /\ (lockLast.prevOp = "Add" /\ lockLast.prevObj = lockLast.obj)
            => ~lockLast.raised

\* C5 amended: as above, but only an AddMonitor(X) entered with no exception
\* pending guarantees that the following RemoveMonitorOrThrow(X) raises nothing.
C5_RemoveRaisesIffUnmatched ==
  lockLast.op = "Remove"
    => /\ Matches(lockLast.before, lockLast.obj) = {}
            => /\ lockLast.raised
               /\ lockLast.left = "IllegalMonitorState"
               /\ monitors_ = lockLast.before
       /\ (lockLast.prevOp = "Add" /\ lockLast.prevObj = lockLast.obj
             /\ ~lockLast.prevSkipped)
            => ~lockLast.raised

\* C5 witness: a remove without a matching entry replaced another pending
\* exception by IllegalMonitorState.
C5_Witness ==
  /\ lockLast.op = "Remove"
  /\ lockLast.raised
  /\ lockLast.pending = "other"
  /\ lockLast.left = "IllegalMonitorState"

-----------------------------------------------------------------------------
(* StackVisitor properties *)

\* Visit b is of an older logical frame than visit a.
Older(a, b) ==
  \/ b.frag > a.frag
  \/ b.frag = a.frag /\ b.frame > a.frame
  \/ b.frag = a.frag /\ b.frame = a.frame /\ b.inl < a.inl

\* Visit j is of a physical compiled frame.
IsPhysicalQuick(j) ==
  ~visits[j].transition /\ ~visits[j].shadow /\ visits[j].inl = 0

\* Calls inlined in the compiled frame visit j is at.
InlinedAt(j) == stack[visits[j].frag].inl[visits[j].frame]

\* The InlinedAt(j) visits before visit j are the frame's inlined calls,
\* innermost first, each with a non-zero inlining depth.
InlinedFirst(j) ==
  /\ j > InlinedAt(j)
  /\ \A m \in 1 .. InlinedAt(j) :
       /\ visits[j - m].frag = visits[j].frag
       /\ visits[j - m].frame = visits[j].frame
       /\ visits[j - m].inl = m
       /\ visits[j - m].inlined

\* Callbacks run strictly newest to oldest, and an inlined frame is followed by
\* the next outer frame of the same compiled frame.
StrictlyOutward ==
  \A j \in 1 .. (Len(visits) - 1) :
    /\ Older(visits[j], visits[j + 1])
    /\ visits[j].inl > 0
         => /\ visits[j + 1].frag = visits[j].frag
            /\ visits[j + 1].frame = visits[j].frame
            /\ visits[j + 1].inl = visits[j].inl - 1

\* C6 as stated: callbacks run strictly newest to oldest, no frame twice, and
\* every compiled frame with inlined calls yields them innermost first, with a
\* non-zero inlining depth, before the physical frame at inlining depth 0.
C6_InlinedAlwaysYielded ==
  /\ StrictlyOutward
  /\ \A j \in 1 .. Len(visits) : IsPhysicalQuick(j) => InlinedFirst(j)

\* C6 amended: the same for a visitor constructed with kIncludeInlinedFrames;
\* one constructed with kSkipInlinedFrames visits physical frames only.
C6_NewestToOldest ==
  /\ StrictlyOutward
  /\ walk_kind_ = "kIncludeInlinedFrames"
       => \A j \in 1 .. Len(visits) : IsPhysicalQuick(j) => InlinedFirst(j)
  /\ walk_kind_ = "kSkipInlinedFrames"
       => \A j \in 1 .. Len(visits) : visits[j].inl = 0 /\ ~visits[j].inlined

\* C6 witness: a compiled frame with two inlined calls was visited after both
\* of them and the walk went on to an older frame.
C6_Witness ==
  \E j \in 3 .. (Len(visits) - 1) :
    /\ IsPhysicalQuick(j)
    /\ InlinedAt(j) = 2
    /\ visits[j - 1].inl = 1
    /\ visits[j - 2].inl = 2
    /\ ~visits[j + 1].transition

\* Callbacks a complete walk makes: every logical frame, and every transition
\* when transitions are included.
ExpectedVisits ==
  CountLogicalFrames(stack, walk_kind_)
    + (IF include_transitions THEN Len(stack) ELSE 0)

\* C7: after a callback has returned false no further callback runs and the
\* walk is over; a walk whose callbacks all return true ends after the oldest
\* frame; every walk ends.
C7_FalseStopsTheWalk ==
  /\ [](stopped => /\ wpc = "finished"
                    /\ ~visits[Len(visits)].ret
                    /\ \A j \in 1 .. (Len(visits) - 1) : visits[j].ret)
  /\ []((wpc = "finished" /\ ~stopped)
          => /\ cur_fragment = Len(stack) + 1
             /\ Len(visits) = ExpectedVisits)
  /\ <>(wpc = "finished")

\* C7 witness: a callback on an inlined frame returned false while older
\* frames were still to be visited.
C7_Witness ==
  /\ stopped
  /\ wpc = "finished"
  /\ visits[Len(visits)].inl > 0
  /\ Len(visits) < ExpectedVisits

\* Visit j is of the oldest frame of the stack.
IsOldestFrame(j) ==
  /\ ~visits[j].transition
  /\ visits[j].inl = 0
  /\ visits[j].frame = FrameCount(visits[j].frag)
  /\ \A f \in (visits[j].frag + 1) .. Len(stack) : FrameCount(f) = 0

\* C8 as stated: the frame visited at depth 0 has height 0, and the oldest
\* frame has frame id 1.
C8_HeightCountedFromNewest ==
  \A j \in 1 .. Len(visits) :
    /\ visits[j].depth = 0 => visits[j].height = 0
    /\ IsOldestFrame(j) => visits[j].id = 1

\* C8 amended: height = GetNumFrames() - depth - 1 and id = height + 1, with
\* GetNumFrames() counting every logical frame and every transition: the frame
\* at depth 0 has height GetNumFrames() - 1, id 1 belongs to depth
\* GetNumFrames() - 1, and the oldest frame has an id of at least 2.
C8_HeightCountedFromOldest ==
  \A j \in 1 .. Len(visits) :
    /\ visits[j].num = ComputeNumFrames(stack, walk_kind_)
    /\ visits[j].height = visits[j].num - visits[j].depth - 1
    /\ visits[j].id = visits[j].height + 1
    /\ visits[j].depth = 0 => visits[j].height = visits[j].num - 1
    /\ visits[j].id = 1 <=> visits[j].depth = visits[j].num - 1
    /\ IsOldestFrame(j) => visits[j].id >= 2

\* C8 witness: the newest of two frames was visited at depth 0 with a non-zero
\* height, and the oldest frame was visited too.
C8_Witness ==
  /\ Len(visits) >= 2
  /\ visits[1].depth = 0
  /\ ~visits[1].transition
  /\ visits[1].height >= 2
  /\ \E j \in 2 .. Len(visits) : IsOldestFrame(j)

\* At every callback the depth is below GetNumFrames() and the height lies in
\* [0, GetNumFrames() - 1].
HeightInRange ==
  \A j \in 1 .. Len(visits) :
    /\ visits[j].depth < visits[j].num
    /\ visits[j].height >= 0
    /\ visits[j].height <= visits[j].num - 1

\* C9 as stated: under either counting policy and either setting of
\* include_transitions the height is in range at every callback and strictly
\* decreases from each callback to the next.
C9_HeightStrictlyDecreases ==
  /\ HeightInRange
  /\ \A j \in 1 .. (Len(visits) - 1) : visits[j + 1].height < visits[j].height

\* C9 amended: the height is in range at every callback and never increases;
\* it strictly decreases from each callback to the next, except from a visited
\* transition to the callback after it when transitions are not counted (kNo);
\* between two callbacks on frames it always strictly decreases.
C9_HeightNeverIncreases ==
  /\ HeightInRange
  /\ \A j \in 1 .. (Len(visits) - 1) :
       /\ visits[j + 1].height <= visits[j].height
       /\ (kCount = "kYes" \/ ~visits[j].transition)
            => visits[j + 1].height < visits[j].height
  /\ \A j \in 1 .. Len(visits) : \A k \in (j + 1) .. Len(visits) :
       (~visits[j].transition /\ ~visits[k].transition)
         => visits[k].height < visits[j].height

\* C9 witness: a walk that visits but does not count transitions went from a
\* frame over a transition to an older frame.
C9_Witness ==
  /\ kCount = "kNo"
  /\ include_transitions
  /\ \E j \in 2 .. (Len(visits) - 1) :
       /\ visits[j].transition
       /\ ~visits[j - 1].transition
       /\ ~visits[j + 1].transition

=============================================================================
